---- MODULE Spec2Model ----
(***************************************************************************)
(* Model of the OCR log analyzers, src/ocr_analyzer.py and                 *)
(* src/ocr_updated_analyze.py: one run of the script from its command line *)
(* to its exit.  The two files share load_log_file, parse_timestamp, the   *)
(* body of generate_narrative_summary and save_summary_file; the variable  *)
(* `variant` says which file runs and the actions branch on it where the   *)
(* files differ.                                                           *)
(*                                                                         *)
(* Strings the code takes apart (timestamps) are sequences of one-character *)
(* strings; a datetime is [sec, us], its seconds since midnight and its    *)
(* microseconds (the date is always 1900-01-01), and a timedelta is        *)
(* [sec, us] as well; a Counter is the sequence of its                     *)
(* <<word, count>> items in insertion order.  Python's 0-based indices     *)
(* become 1-based ones.                                                    *)
(***************************************************************************)
EXTENDS Integers, Sequences, FiniteSets, TLC

\* ------------------------------------------------------------ configuration

ACTIVITY_THRESHOLD == 50

GAP_THRESHOLD_SECONDS == 5

\* The n of word_counts.most_common(n).
TOP_WORDS == 10

\* The slice top_content_words[:5] of the first analyzer.
TOP_THEMES == 5

\* Longest log the model loads.
MaxRecords == 3

Variants == {"ocr_analyzer", "ocr_updated_analyze"}

FieldNames ==
    {"timestamp", "total_words_detected", "non_duplicate_count", "keywords",
     "detected_words_list"}

\* ------------------------------------------------------------ parse_timestamp

Digits == <<"0", "1", "2", "3", "4", "5", "6", "7", "8", "9">>

IsDigit(c) == \E k \in 1..10 : Digits[k] = c

DigitVal(c) == (CHOOSE k \in 1..10 : Digits[k] = c) - 1

\* Number of digits of s from position p on, up to the first non-digit.
RECURSIVE DigitRun(_, _)
DigitRun(s, p) ==
    IF p > Len(s) \/ ~IsDigit(s[p]) THEN 0 ELSE 1 + DigitRun(s, p + 1)

\* Value of the n digits of s from position p on.
RECURSIVE DigitsValue(_, _, _)
DigitsValue(s, p, n) ==
    IF n = 0 THEN 0
    ELSE 10 * DigitsValue(s, p, n - 1) + DigitVal(s[p + n - 1])

RECURSIVE Pow10(_)
Pow10(n) == IF n = 0 THEN 1 ELSE 10 * Pow10(n - 1)

\* A character outside ASCII is written by its code point: "U+0669" is the
\* one character ARABIC-INDIC DIGIT NINE.  These are the decimal digits
\* outside ASCII (category Nd of the interpreter's Unicode database), a row
\* of the digits zero to nine for each script.
UnicodeDigits ==
    <<
      <<"U+0660", "U+0661", "U+0662", "U+0663", "U+0664",
        "U+0665", "U+0666", "U+0667", "U+0668", "U+0669">>,
      <<"U+06F0", "U+06F1", "U+06F2", "U+06F3", "U+06F4",
        "U+06F5", "U+06F6", "U+06F7", "U+06F8", "U+06F9">>,
      <<"U+07C0", "U+07C1", "U+07C2", "U+07C3", "U+07C4",
        "U+07C5", "U+07C6", "U+07C7", "U+07C8", "U+07C9">>,
      <<"U+0966", "U+0967", "U+0968", "U+0969", "U+096A",
        "U+096B", "U+096C", "U+096D", "U+096E", "U+096F">>,
      <<"U+09E6", "U+09E7", "U+09E8", "U+09E9", "U+09EA",
        "U+09EB", "U+09EC", "U+09ED", "U+09EE", "U+09EF">>,
      <<"U+0A66", "U+0A67", "U+0A68", "U+0A69", "U+0A6A",
        "U+0A6B", "U+0A6C", "U+0A6D", "U+0A6E", "U+0A6F">>,
      <<"U+0AE6", "U+0AE7", "U+0AE8", "U+0AE9", "U+0AEA",
        "U+0AEB", "U+0AEC", "U+0AED", "U+0AEE", "U+0AEF">>,
      <<"U+0B66", "U+0B67", "U+0B68", "U+0B69", "U+0B6A",
        "U+0B6B", "U+0B6C", "U+0B6D", "U+0B6E", "U+0B6F">>,
      <<"U+0BE6", "U+0BE7", "U+0BE8", "U+0BE9", "U+0BEA",
        "U+0BEB", "U+0BEC", "U+0BED", "U+0BEE", "U+0BEF">>,
      <<"U+0C66", "U+0C67", "U+0C68", "U+0C69", "U+0C6A",
        "U+0C6B", "U+0C6C", "U+0C6D", "U+0C6E", "U+0C6F">>,
      <<"U+0CE6", "U+0CE7", "U+0CE8", "U+0CE9", "U+0CEA",
        "U+0CEB", "U+0CEC", "U+0CED", "U+0CEE", "U+0CEF">>,
      <<"U+0D66", "U+0D67", "U+0D68", "U+0D69", "U+0D6A",
        "U+0D6B", "U+0D6C", "U+0D6D", "U+0D6E", "U+0D6F">>,
      <<"U+0DE6", "U+0DE7", "U+0DE8", "U+0DE9", "U+0DEA",
        "U+0DEB", "U+0DEC", "U+0DED", "U+0DEE", "U+0DEF">>,
      <<"U+0E50", "U+0E51", "U+0E52", "U+0E53", "U+0E54",
        "U+0E55", "U+0E56", "U+0E57", "U+0E58", "U+0E59">>,
      <<"U+0ED0", "U+0ED1", "U+0ED2", "U+0ED3", "U+0ED4",
        "U+0ED5", "U+0ED6", "U+0ED7", "U+0ED8", "U+0ED9">>,
      <<"U+0F20", "U+0F21", "U+0F22", "U+0F23", "U+0F24",
        "U+0F25", "U+0F26", "U+0F27", "U+0F28", "U+0F29">>,
      <<"U+1040", "U+1041", "U+1042", "U+1043", "U+1044",
        "U+1045", "U+1046", "U+1047", "U+1048", "U+1049">>,
      <<"U+1090", "U+1091", "U+1092", "U+1093", "U+1094",
        "U+1095", "U+1096", "U+1097", "U+1098", "U+1099">>,
      <<"U+17E0", "U+17E1", "U+17E2", "U+17E3", "U+17E4",
        "U+17E5", "U+17E6", "U+17E7", "U+17E8", "U+17E9">>,
      <<"U+1810", "U+1811", "U+1812", "U+1813", "U+1814",
        "U+1815", "U+1816", "U+1817", "U+1818", "U+1819">>,
      <<"U+1946", "U+1947", "U+1948", "U+1949", "U+194A",
        "U+194B", "U+194C", "U+194D", "U+194E", "U+194F">>,
      <<"U+19D0", "U+19D1", "U+19D2", "U+19D3", "U+19D4",
        "U+19D5", "U+19D6", "U+19D7", "U+19D8", "U+19D9">>,
      <<"U+1A80", "U+1A81", "U+1A82", "U+1A83", "U+1A84",
        "U+1A85", "U+1A86", "U+1A87", "U+1A88", "U+1A89">>,
      <<"U+1A90", "U+1A91", "U+1A92", "U+1A93", "U+1A94",
        "U+1A95", "U+1A96", "U+1A97", "U+1A98", "U+1A99">>,
      <<"U+1B50", "U+1B51", "U+1B52", "U+1B53", "U+1B54",
        "U+1B55", "U+1B56", "U+1B57", "U+1B58", "U+1B59">>,
      <<"U+1BB0", "U+1BB1", "U+1BB2", "U+1BB3", "U+1BB4",
        "U+1BB5", "U+1BB6", "U+1BB7", "U+1BB8", "U+1BB9">>,
      <<"U+1C40", "U+1C41", "U+1C42", "U+1C43", "U+1C44",
        "U+1C45", "U+1C46", "U+1C47", "U+1C48", "U+1C49">>,
      <<"U+1C50", "U+1C51", "U+1C52", "U+1C53", "U+1C54",
        "U+1C55", "U+1C56", "U+1C57", "U+1C58", "U+1C59">>,
      <<"U+A620", "U+A621", "U+A622", "U+A623", "U+A624",
        "U+A625", "U+A626", "U+A627", "U+A628", "U+A629">>,
      <<"U+A8D0", "U+A8D1", "U+A8D2", "U+A8D3", "U+A8D4",
        "U+A8D5", "U+A8D6", "U+A8D7", "U+A8D8", "U+A8D9">>,
      <<"U+A900", "U+A901", "U+A902", "U+A903", "U+A904",
        "U+A905", "U+A906", "U+A907", "U+A908", "U+A909">>,
      <<"U+A9D0", "U+A9D1", "U+A9D2", "U+A9D3", "U+A9D4",
        "U+A9D5", "U+A9D6", "U+A9D7", "U+A9D8", "U+A9D9">>,
      <<"U+A9F0", "U+A9F1", "U+A9F2", "U+A9F3", "U+A9F4",
        "U+A9F5", "U+A9F6", "U+A9F7", "U+A9F8", "U+A9F9">>,
      <<"U+AA50", "U+AA51", "U+AA52", "U+AA53", "U+AA54",
        "U+AA55", "U+AA56", "U+AA57", "U+AA58", "U+AA59">>,
      <<"U+ABF0", "U+ABF1", "U+ABF2", "U+ABF3", "U+ABF4",
        "U+ABF5", "U+ABF6", "U+ABF7", "U+ABF8", "U+ABF9">>,
      <<"U+FF10", "U+FF11", "U+FF12", "U+FF13", "U+FF14",
        "U+FF15", "U+FF16", "U+FF17", "U+FF18", "U+FF19">>,
      <<"U+104A0", "U+104A1", "U+104A2", "U+104A3", "U+104A4",
        "U+104A5", "U+104A6", "U+104A7", "U+104A8", "U+104A9">>,
      <<"U+10D30", "U+10D31", "U+10D32", "U+10D33", "U+10D34",
        "U+10D35", "U+10D36", "U+10D37", "U+10D38", "U+10D39">>,
      <<"U+11066", "U+11067", "U+11068", "U+11069", "U+1106A",
        "U+1106B", "U+1106C", "U+1106D", "U+1106E", "U+1106F">>,
      <<"U+110F0", "U+110F1", "U+110F2", "U+110F3", "U+110F4",
        "U+110F5", "U+110F6", "U+110F7", "U+110F8", "U+110F9">>,
      <<"U+11136", "U+11137", "U+11138", "U+11139", "U+1113A",
        "U+1113B", "U+1113C", "U+1113D", "U+1113E", "U+1113F">>,
      <<"U+111D0", "U+111D1", "U+111D2", "U+111D3", "U+111D4",
        "U+111D5", "U+111D6", "U+111D7", "U+111D8", "U+111D9">>,
      <<"U+112F0", "U+112F1", "U+112F2", "U+112F3", "U+112F4",
        "U+112F5", "U+112F6", "U+112F7", "U+112F8", "U+112F9">>,
      <<"U+11450", "U+11451", "U+11452", "U+11453", "U+11454",
        "U+11455", "U+11456", "U+11457", "U+11458", "U+11459">>,
      <<"U+114D0", "U+114D1", "U+114D2", "U+114D3", "U+114D4",
        "U+114D5", "U+114D6", "U+114D7", "U+114D8", "U+114D9">>,
      <<"U+11650", "U+11651", "U+11652", "U+11653", "U+11654",
        "U+11655", "U+11656", "U+11657", "U+11658", "U+11659">>,
      <<"U+116C0", "U+116C1", "U+116C2", "U+116C3", "U+116C4",
        "U+116C5", "U+116C6", "U+116C7", "U+116C8", "U+116C9">>,
      <<"U+11730", "U+11731", "U+11732", "U+11733", "U+11734",
        "U+11735", "U+11736", "U+11737", "U+11738", "U+11739">>,
      <<"U+118E0", "U+118E1", "U+118E2", "U+118E3", "U+118E4",
        "U+118E5", "U+118E6", "U+118E7", "U+118E8", "U+118E9">>,
      <<"U+11950", "U+11951", "U+11952", "U+11953", "U+11954",
        "U+11955", "U+11956", "U+11957", "U+11958", "U+11959">>,
      <<"U+11C50", "U+11C51", "U+11C52", "U+11C53", "U+11C54",
        "U+11C55", "U+11C56", "U+11C57", "U+11C58", "U+11C59">>,
      <<"U+11D50", "U+11D51", "U+11D52", "U+11D53", "U+11D54",
        "U+11D55", "U+11D56", "U+11D57", "U+11D58", "U+11D59">>,
      <<"U+11DA0", "U+11DA1", "U+11DA2", "U+11DA3", "U+11DA4",
        "U+11DA5", "U+11DA6", "U+11DA7", "U+11DA8", "U+11DA9">>,
      <<"U+16A60", "U+16A61", "U+16A62", "U+16A63", "U+16A64",
        "U+16A65", "U+16A66", "U+16A67", "U+16A68", "U+16A69">>,
      <<"U+16AC0", "U+16AC1", "U+16AC2", "U+16AC3", "U+16AC4",
        "U+16AC5", "U+16AC6", "U+16AC7", "U+16AC8", "U+16AC9">>,
      <<"U+16B50", "U+16B51", "U+16B52", "U+16B53", "U+16B54",
        "U+16B55", "U+16B56", "U+16B57", "U+16B58", "U+16B59">>,
      <<"U+1D7CE", "U+1D7CF", "U+1D7D0", "U+1D7D1", "U+1D7D2",
        "U+1D7D3", "U+1D7D4", "U+1D7D5", "U+1D7D6", "U+1D7D7">>,
      <<"U+1D7D8", "U+1D7D9", "U+1D7DA", "U+1D7DB", "U+1D7DC",
        "U+1D7DD", "U+1D7DE", "U+1D7DF", "U+1D7E0", "U+1D7E1">>,
      <<"U+1D7E2", "U+1D7E3", "U+1D7E4", "U+1D7E5", "U+1D7E6",
        "U+1D7E7", "U+1D7E8", "U+1D7E9", "U+1D7EA", "U+1D7EB">>,
      <<"U+1D7EC", "U+1D7ED", "U+1D7EE", "U+1D7EF", "U+1D7F0",
        "U+1D7F1", "U+1D7F2", "U+1D7F3", "U+1D7F4", "U+1D7F5">>,
      <<"U+1D7F6", "U+1D7F7", "U+1D7F8", "U+1D7F9", "U+1D7FA",
        "U+1D7FB", "U+1D7FC", "U+1D7FD", "U+1D7FE", "U+1D7FF">>,
      <<"U+1E140", "U+1E141", "U+1E142", "U+1E143", "U+1E144",
        "U+1E145", "U+1E146", "U+1E147", "U+1E148", "U+1E149">>,
      <<"U+1E2F0", "U+1E2F1", "U+1E2F2", "U+1E2F3", "U+1E2F4",
        "U+1E2F5", "U+1E2F6", "U+1E2F7", "U+1E2F8", "U+1E2F9">>,
      <<"U+1E950", "U+1E951", "U+1E952", "U+1E953", "U+1E954",
        "U+1E955", "U+1E956", "U+1E957", "U+1E958", "U+1E959">>,
      <<"U+1FBF0", "U+1FBF1", "U+1FBF2", "U+1FBF3", "U+1FBF4",
        "U+1FBF5", "U+1FBF6", "U+1FBF7", "U+1FBF8", "U+1FBF9">>
    >>

\* The decimal digits outside ASCII, and the value int() gives each.
UnicodeDecimals ==
    UNION { {UnicodeDigits[r][k] : k \in 1..10} : r \in 1..Len(UnicodeDigits) }

UnicodeDecimalValue ==
    [c \in UnicodeDecimals |->
        (CHOOSE k \in 1..10 :
             \E r \in 1..Len(UnicodeDigits) : UnicodeDigits[r][k] = c) - 1]

\* \d in strptime's patterns of %H, %M and %S: a decimal digit of any script
\* (the pattern of %f is [0-9], which IsDigit is).
IsDecimal(c) == IsDigit(c) \/ c \in UnicodeDecimals

\* int() of one decimal digit.
DecimalVal(c) == IF IsDigit(c) THEN DigitVal(c) ELSE UnicodeDecimalValue[c]

\* For every character of s the value int() gives it, and -1 where the
\* character is no decimal digit.
DecimalValues(s) ==
    [p \in 1..Len(s) |-> IF IsDecimal(s[p]) THEN DecimalVal(s[p]) ELSE 0 - 1]

\* The directive %H, %M or %S at position p, by strptime's patterns
\* 2[0-3]|[0-1]\d|\d, [0-5]\d|\d and 6[0-1]|[0-5]\d|\d, with `decimal` the
\* decimal values of the characters of s: the first alternative that matches
\* is taken (after two characters matched no shorter alternative can make
\* the rest match, a digit standing where the literal is due), and int()
\* gives the value.  The result is <<matched, value, next position>>.
MatchField(s, decimal, p, directive) ==
    LET two ==
            /\ p + 1 <= Len(s)
            /\ decimal[p + 1] >= 0
            /\ CASE directive = "H" ->
                       \/ s[p] = "2" /\ s[p + 1] \in {"0", "1", "2", "3"}
                       \/ s[p] \in {"0", "1"}
                 [] directive = "M" ->
                       s[p] \in {"0", "1", "2", "3", "4", "5"}
                 [] directive = "S" ->
                       \/ s[p] = "6" /\ s[p + 1] \in {"0", "1"}
                       \/ s[p] \in {"0", "1", "2", "3", "4", "5"}
    IN  IF two
        THEN <<TRUE, 10 * decimal[p] + decimal[p + 1], p + 2>>
        ELSE IF p <= Len(s) /\ decimal[p] >= 0
        THEN <<TRUE, decimal[p], p + 1>>
        ELSE <<FALSE, 0, p>>

MatchLiteral(s, p, c) == p <= Len(s) /\ s[p] = c

\* The common part of both formats, %H:%M:%S, from position 1:
\* [ok, h, m, sec, next].
MatchHMS(s, decimal) ==
    LET h == MatchField(s, decimal, 1, "H")
        m == MatchField(s, decimal, h[3] + 1, "M")
        x == MatchField(s, decimal, m[3] + 1, "S")
        ok == /\ h[1]
              /\ MatchLiteral(s, h[3], ":")
              /\ m[1]
              /\ MatchLiteral(s, m[3], ":")
              /\ x[1]
    IN  IF ok THEN [ok |-> TRUE, h |-> h[2], m |-> m[2], sec |-> x[2], next |-> x[3]]
        ELSE [ok |-> FALSE, h |-> 0, m |-> 0, sec |-> 0, next |-> 1]

NoTime == [ok |-> FALSE, sec |-> 0, us |-> 0]

\* datetime(1900, 1, 1, h, m, sec, us); a second of 60 or 61 passes
\* strptime's pattern and is refused by the datetime constructor, with a
\* ValueError as well.
MakeTime(h, m, sec, us) ==
    IF sec > 59 THEN NoTime
    ELSE [ok |-> TRUE, sec |-> (h * 60 + m) * 60 + sec, us |-> us]

\* datetime.strptime(s, '%H:%M:%S.%f'): the fraction is 1 to 6 digits, padded
\* with zeros on the right to microseconds, and nothing may follow it.
StrptimeFraction(s, decimal) ==
    LET t == MatchHMS(s, decimal)
        n == DigitRun(s, t.next + 1)
    IN  IF /\ t.ok
           /\ MatchLiteral(s, t.next, ".")
           /\ n >= 1
           /\ n <= 6
           /\ t.next + n = Len(s)
        THEN MakeTime(t.h, t.m, t.sec,
                      DigitsValue(s, t.next + 1, n) * Pow10(6 - n))
        ELSE NoTime

\* datetime.strptime(s, '%H:%M:%S'): nothing may follow the seconds.
StrptimePlain(s, decimal) ==
    LET t == MatchHMS(s, decimal)
    IN  IF t.ok /\ t.next = Len(s) + 1 THEN MakeTime(t.h, t.m, t.sec, 0)
        ELSE NoTime

\* parse_timestamp: the first format, then the second; ok = FALSE is the
\* ValueError it raises when neither matches.
parse_timestamp(time_str) ==
    LET decimal == DecimalValues(time_str)
        a == StrptimeFraction(time_str, decimal)
    IN  IF a.ok THEN a ELSE StrptimePlain(time_str, decimal)

\* ------------------------------------------------------------ the logs loaded

\* Timestamps as the capture script writes them and as a damaged log may hold
\* them.
TS_090000 == <<"0", "9", ":", "0", "0", ":", "0", "0", ".", "0", "0", "0">>

TS_090002 == <<"0", "9", ":", "0", "0", ":", "0", "2">>

TS_0900049 == <<"0", "9", ":", "0", "0", ":", "0", "4", ".", "9", "9", "9", "9", "9", "9">>

TS_090005 == <<"9", ":", "0", ":", "U+0665", ".", "0">>

TS_090008 == <<"0", "9", ":", "0", "0", ":", "0", "8">>

\* 2.125 s and 8.05 s after TS_090000: seconds whose hundredths or tenths
\* are decided by the float's binary value.
TS_090002125 == <<"0", "9", ":", "0", "0", ":", "0", "2", ".", "1", "2", "5">>

TS_09000805 == <<"0", "9", ":", "0", "0", ":", "0", "8", ".", "0", "5">>

TS_NoSeconds == <<"0", "9", ":", "0", "0">>

TS_Second60 == <<"0", "9", ":", "0", "0", ":", "6", "0", ".", "5">>

WordsA == <<"a", "b", "c", "d", "e", "f">>

WordsB == <<"g", "h", "i", "j", "k", "l", "k">>

WordsC == <<"l", "l", "c">>

\* A record of the log: `fields` are the keys the JSON object has, ts_is_str
\* whether its timestamp is a JSON string (a number or null otherwise); the
\* value of an absent key is never read.
Rec(ts, total, nondup, words, fields, isStr) ==
    [fields |-> fields, ts_is_str |-> isStr, timestamp |-> ts,
     total_words_detected |-> total, non_duplicate_count |-> nondup,
     keywords |-> SubSeq(words, 1, IF Len(words) < 5 THEN Len(words) ELSE 5),
     detected_words_list |-> words]

Full(ts, total, nondup, words) == Rec(ts, total, nondup, words, FieldNames, TRUE)

Lacking(ts, total, nondup, words, field) ==
    Rec(ts, total, nondup, words, FieldNames \ {field}, TRUE)

\* The records a loaded log is made of.
Pool ==
    { Full(TS_090000, 12, 10, WordsA),
      Full(TS_090002, 7, 5, WordsB),
      Full(TS_090008, 60, 55, WordsC),
      Full(TS_090005, 50, 50, <<>>),
      Full(TS_0900049, 49, 49, WordsA),
      Full(TS_NoSeconds, 50, 50, WordsB),
      Lacking(<<>>, 6, 6, WordsA, "timestamp"),
      Lacking(TS_090002, 50, 0, WordsB, "non_duplicate_count"),
      Lacking(TS_090002, 3, 3, <<>>, "detected_words_list"),
      Lacking(TS_090002125, 50, 50, WordsB, "keywords"),
      Lacking(TS_09000805, 0, 5, WordsC, "total_words_detected"),
      Lacking(TS_Second60, 3, 0, WordsC, "non_duplicate_count"),
      Rec(<<>>, 4, 4, WordsA, FieldNames, FALSE) }

Logs == UNION { [1..n -> Pool] : n \in 0..MaxRecords }

\* ------------------------------------------------------------ pure steps

\* record['dt_time'] = ...: the record with its parsed time.
WithTime(record, t) ==
    [fields |-> record.fields, ts_is_str |-> record.ts_is_str,
     timestamp |-> record.timestamp,
     total_words_detected |-> record.total_words_detected,
     non_duplicate_count |-> record.non_duplicate_count,
     keywords |-> record.keywords,
     detected_words_list |-> record.detected_words_list,
     dt_time |-> [sec |-> t.sec, us |-> t.us]]

\* What the body of the try statement does with one record: "KeyError" when
\* record['timestamp'] fails, "TypeError" when strptime is handed something
\* that is no string, "ValueError" when parse_timestamp raises, "ok"
\* otherwise.
ParseOutcome(record) ==
    IF "timestamp" \notin record.fields THEN "KeyError"
    ELSE IF ~record.ts_is_str THEN "TypeError"
    ELSE IF parse_timestamp(record.timestamp).ok THEN "ok"
    ELSE "ValueError"

\* The loop without its except clause: a ValueError gets through as well.
PropagatesValueError(outcome) == outcome \in {"KeyError", "TypeError", "ValueError"}

\* `except ValueError`: the exceptions the loop lets through.
Propagates(outcome) == outcome \in {"KeyError", "TypeError"}

\* The except clause's print, which only the first analyzer has.
WarnsOnSkip(v) == v = "ocr_analyzer"

\* timed_records.sort(key=lambda x: x['dt_time']): a stable sort, so a
\* record goes after every record whose time is not later than its own.
TimeLE(a, b) == a.sec < b.sec \/ (a.sec = b.sec /\ a.us <= b.us)

\* b - a as a timedelta, normalised to 0 <= us < 1000000.
TimeDiff(b, a) ==
    IF b.us >= a.us THEN [sec |-> b.sec - a.sec, us |-> b.us - a.us]
    ELSE [sec |-> b.sec - a.sec - 1, us |-> b.us - a.us + 1000000]

InsertByTime(sorted, record) ==
    LET before == {k \in 1..Len(sorted) :
                      TimeLE(sorted[k].dt_time, record.dt_time)}
        n == Cardinality(before)
    IN  SubSeq(sorted, 1, n) \o <<record>> \o SubSeq(sorted, n + 1, Len(sorted))

RECURSIVE SortByTime(_)
SortByTime(records) ==
    IF records = <<>> THEN <<>>
    ELSE InsertByTime(SortByTime(SubSeq(records, 1, Len(records) - 1)),
                      records[Len(records)])

\* The total taken from the lengths of the word lists instead.
RECURSIVE SumWordListLengths(_)
SumWordListLengths(records) ==
    IF records = <<>> THEN 0
    ELSE Len(records[1].detected_words_list) + SumWordListLengths(Tail(records))

\* sum(record['non_duplicate_count'] for record in timed_records)
RECURSIVE SumNonDuplicate(_)
SumNonDuplicate(records) ==
    IF records = <<>> THEN 0
    ELSE records[1].non_duplicate_count + SumNonDuplicate(Tail(records))

total_words_read_of(records) == SumNonDuplicate(records)

\* all_content_words.extend(record['detected_words_list']) over the records.
RECURSIVE MergeWords(_)
MergeWords(records) ==
    IF records = <<>> THEN <<>>
    ELSE records[1].detected_words_list \o MergeWords(Tail(records))

\* Counter(words): an item per distinct word, in order of first occurrence.
CountOne(counts, word) ==
    IF \E k \in 1..Len(counts) : counts[k][1] = word
    THEN [k \in 1..Len(counts) |->
            IF counts[k][1] = word THEN <<word, counts[k][2] + 1>> ELSE counts[k]]
    ELSE Append(counts, <<word, 1>>)

RECURSIVE Counter(_)
Counter(words) ==
    IF words = <<>> THEN <<>>
    ELSE CountOne(Counter(SubSeq(words, 1, Len(words) - 1)), words[Len(words)])

\* A sort that is not stable: an item goes before the items of its own count.
InsertByCountUnstable(sorted, item) ==
    LET n == Cardinality({k \in 1..Len(sorted) : sorted[k][2] > item[2]})
    IN  SubSeq(sorted, 1, n) \o <<item>> \o SubSeq(sorted, n + 1, Len(sorted))

\* most_common(n) is heapq.nlargest(n, items, key=count), which is
\* sorted(items, key=count, reverse=True)[:n]: a stable sort, so an item goes
\* after every item whose count is not smaller than its own.
InsertByCount(sorted, item) ==
    LET n == Cardinality({k \in 1..Len(sorted) : sorted[k][2] >= item[2]})
    IN  SubSeq(sorted, 1, n) \o <<item>> \o SubSeq(sorted, n + 1, Len(sorted))

RECURSIVE SortByCount(_)
SortByCount(items) ==
    IF items = <<>> THEN <<>>
    ELSE InsertByCount(SortByCount(SubSeq(items, 1, Len(items) - 1)),
                       items[Len(items)])

Take(seq, n) == SubSeq(seq, 1, IF Len(seq) < n THEN Len(seq) ELSE n)

most_common(counts, n) == Take(SortByCount(counts), n)

\* [word for word, count in word_counts.most_common(10)]
top_content_words_of(counts) ==
    LET top == most_common(counts, TOP_WORDS)
    IN  [k \in 1..Len(top) |-> top[k][1]]

\* strftime('%H:%M:%S.%f')[:-3] drops the last three digits of the
\* microseconds: the text shows the time in whole milliseconds.
FormatMillis(t) == t.sec * 1000 + t.us \div 1000

\* The greatest p with x * 2^p <= n, for 0 < x <= n.
RECURSIVE DoublingsUpTo(_, _)
DoublingsUpTo(x, n) == IF 2 * x <= n THEN 1 + DoublingsUpTo(2 * x, n) ELSE 0

\* The least k with x * 2^k >= d, for x > 0.
RECURSIVE DoublingsToReach(_, _)
DoublingsToReach(x, d) == IF x >= d THEN 0 ELSE 1 + DoublingsToReach(2 * x, d)

\* 2^e modulo m.
RECURSIVE PowerOfTwoMod(_, _)
PowerOfTwoMod(e, m) ==
    IF e = 0 THEN 1 % m ELSE (2 * PowerOfTwoMod(e - 1, m)) % m

\* d.total_seconds() is the float nearest to n/d, a significand of 53 bits:
\* with 2^p <= n/d < 2^(p+1) it is round(n * 2^(52-p) / d) / 2^(52-p).  The
\* remainder of that division says on which side of n/d the float lies.
FloatSide(n, d) ==
    LET p == IF n >= d THEN DoublingsUpTo(d, n) ELSE 0 - DoublingsToReach(n, d)
        r == ((n % d) * PowerOfTwoMod(52 - p, d)) % d
    IN  IF r = 0 THEN "exact" ELSE IF 2 * r > d THEN "above" ELSE "below"

\* f"{x:.2f}" and f"{x:.1f}" of x = d.total_seconds(), as the number of units
\* shown (unit is the microseconds of one hundredth or one tenth).  The
\* digits are those of the decimal nearest to the float's binary value:
\* where the time lies halfway between two units, the side of the float
\* decides, and a float that is exactly the half goes to the even unit.
FormatFixed(d, unit) ==
    LET whole == d.sec * (1000000 \div unit) + d.us \div unit
        rest == d.us % unit
        half == unit \div 2
        up == \/ 2 * rest > unit
              \/ /\ 2 * rest = unit
                 /\ LET side == FloatSide(d.sec * (1000000 \div half)
                                              + d.us \div half,
                                          1000000 \div half)
                    IN  \/ side = "above"
                        \/ side = "exact" /\ whole % 2 = 1
    IN  IF up THEN whole + 1 ELSE whole

Format2f(d) == FormatFixed(d, 10000)

Format1f(d) == FormatFixed(d, 100000)

\* The comparisons with > in place of >=.
IsHighActivityAbove(record) == record.non_duplicate_count > ACTIVITY_THRESHOLD

IsGapAbove(time_diff) ==
    \/ time_diff.sec > GAP_THRESHOLD_SECONDS
    \/ time_diff.sec = GAP_THRESHOLD_SECONDS /\ time_diff.us > 0

\* record['non_duplicate_count'] >= ACTIVITY_THRESHOLD
IsHighActivity(record) == record.non_duplicate_count >= ACTIVITY_THRESHOLD

\* time_diff >= GAP_THRESHOLD_SECONDS, time_diff the total_seconds() of a
\* timedelta: with 0 <= us < 1000000 the whole seconds decide.
IsGap(time_diff) == time_diff.sec >= GAP_THRESHOLD_SECONDS

ActivityBullet(record) ==
    [kind |-> "HIGH ACTIVITY", timestamp |-> record.timestamp,
     count |-> record.non_duplicate_count]

GapBullet(prev, record, time_diff) ==
    [kind |-> "PAUSE/BREAK", from |-> prev.timestamp, to |-> record.timestamp,
     seconds |-> Format1f(time_diff)]

\* The two checks of the loop body in the other order.
ScanRecordGapFirst(records, k) ==
    LET record == records[k]
        time_diff == TimeDiff(record.dt_time, records[k - 1].dt_time)
    IN  (IF k > 1 /\ IsGap(time_diff)
         THEN <<GapBullet(records[k - 1], record, time_diff)>>
         ELSE <<>>)
        \o (IF IsHighActivity(record) THEN <<ActivityBullet(record)>> ELSE <<>>)

\* The bullets one pass of the scanning loop appends, for the record at
\* position k of the sorted records.
ScanRecord(records, k) ==
    LET record == records[k]
        time_diff == TimeDiff(record.dt_time, records[k - 1].dt_time)
    IN  (IF IsHighActivity(record) THEN <<ActivityBullet(record)>> ELSE <<>>)
        \o (IF k > 1 /\ IsGap(time_diff)
            THEN <<GapBullet(records[k - 1], record, time_diff)>>
            ELSE <<>>)

NoEventsBullet == [kind |-> "NONE"]

\* ------------------------------------------------------------ strings of the summarizer

\* A string of generate_extractive_summary is the sequence of its pieces: the
\* words it was joined from and the single spaces between them.  Spelling
\* gives the characters of every piece, so that lower(), isalnum() and the
\* tokenizers' tests of the last character are computed from characters.
Spelling ==
    [w \in {"a", "b", "c", "d", "e", "f", "g", "h", "i", "j", "k", "l"} |-> <<w>>]
    @@ (" " :> <<" ">>)
    @@ ("." :> <<".">>)
    @@ ("of" :> <<"o", "f">>)
    @@ ("the" :> <<"t", "h", "e">>)
    @@ ("bank" :> <<"b", "a", "n", "k">>)
    @@ ("paid" :> <<"p", "a", "i", "d">>)
    @@ ("mail" :> <<"m", "a", "i", "l">>)
    @@ ("sent" :> <<"s", "e", "n", "t">>)
    @@ ("Mail" :> <<"M", "a", "i", "l">>)
    @@ ("bank." :> <<"b", "a", "n", "k", ".">>)
    @@ ("paid." :> <<"p", "a", "i", "d", ".">>)
    @@ ("mail." :> <<"m", "a", "i", "l", ".">>)
    @@ ("sent." :> <<"s", "e", "n", "t", ".">>)

Vocabulary == DOMAIN Spelling

\* The piece with the given characters.
Word(chars) == CHOOSE w \in Vocabulary : Spelling[w] = chars

UpperCase ==
    <<"A", "B", "C", "D", "E", "F", "G", "H", "I", "J", "K", "L", "M",
      "N", "O", "P", "Q", "R", "S", "T", "U", "V", "W", "X", "Y", "Z">>

LowerCase ==
    <<"a", "b", "c", "d", "e", "f", "g", "h", "i", "j", "k", "l", "m",
      "n", "o", "p", "q", "r", "s", "t", "u", "v", "w", "x", "y", "z">>

LowerChar(c) ==
    IF \E k \in 1..Len(UpperCase) : UpperCase[k] = c
    THEN LowerCase[CHOOSE k \in 1..Len(UpperCase) : UpperCase[k] = c]
    ELSE c

IsAlnumChar(c) ==
    \/ \E k \in 1..Len(LowerCase) : c \in {LowerCase[k], UpperCase[k]}
    \/ IsDigit(c)

\* str.lower() of one piece.
LowerOf ==
    [w \in Vocabulary |->
        Word([k \in 1..Len(Spelling[w]) |-> LowerChar(Spelling[w][k])])]

\* str.isalnum() of one piece.
IsAlnum ==
    [w \in Vocabulary |->
        /\ Spelling[w] # <<>>
        /\ \A k \in 1..Len(Spelling[w]) : IsAlnumChar(Spelling[w][k])]

\* A token that ends in a period after a character that is no period.
PeriodFinal ==
    [w \in Vocabulary |->
        LET n == Len(Spelling[w])
        IN  n >= 2 /\ Spelling[w][n] = "." /\ Spelling[w][n - 1] # "."]

\* The token without its last character.
WithoutLast ==
    [w \in Vocabulary |->
        IF PeriodFinal[w]
        THEN Word(SubSeq(Spelling[w], 1, Len(Spelling[w]) - 1))
        ELSE w]

\* text.lower() and sentence.lower()
lower(s) == [k \in 1..Len(s) |-> LowerOf[s[k]]]

\* " ".join(strings): the strings with one space between each two (the
\* list is joined half by half).
RECURSIVE join(_)
join(strings) ==
    IF strings = <<>> THEN <<>>
    ELSE IF Len(strings) = 1 THEN strings[1]
    ELSE LET half == Len(strings) \div 2
         IN  join(SubSeq(strings, 1, half)) \o <<" ">>
             \o join(SubSeq(strings, half + 1, Len(strings)))

\* A list of words as a list of strings.
AsStrings(word_list) == [k \in 1..Len(word_list) |-> <<word_list[k]>>]

\* string.split(' '): the strings between the spaces, empty ones included
\* (the string is split at its middle space, then each side).
RECURSIVE split(_)
split(string) ==
    LET spaces == {k \in 1..Len(string) : string[k] = " "}
    IN  IF spaces = {} THEN <<string>>
        ELSE LET k == CHOOSE j \in spaces :
                          Cardinality({h \in spaces : h < j})
                              = Cardinality(spaces) \div 2
             IN  split(SubSeq(string, 1, k - 1))
                 \o split(SubSeq(string, k + 1, Len(string)))

\* ------------------------------------------------------------ nltk tokenizers

\* sent_tokenize(text), the Punkt tokenizer, on the strings of Vocabulary:
\* a token that ends in a period and is followed by a space and another
\* token ends a sentence, and the space after it belongs to no sentence;
\* what follows the last such token is the last sentence.  (Vocabulary has
\* no abbreviation, initial, number or ellipsis before a period, the tokens
\* Punkt would not break after, and no '?' or '!'.)
RECURSIVE sent_tokenize(_)
sent_tokenize(text) ==
    IF text = <<>> THEN <<>>
    ELSE LET ends == {k \in 1..(Len(text) - 2) :
                         PeriodFinal[text[k]] /\ text[k + 1] = " "}
         IN  IF ends = {} THEN <<text>>
             ELSE LET k == CHOOSE j \in ends : \A h \in ends : j <= h
                  IN  <<SubSeq(text, 1, k)>>
                      \o sent_tokenize(SubSeq(text, k + 2, Len(text)))

\* The Treebank tokenizer on one sentence: the tokens between the spaces,
\* with the period that ends the sentence split off as a token of its own.
TreebankTokenize(sentence) ==
    LET tokens == SelectSeq(sentence, LAMBDA piece : piece # " ")
        n == Len(tokens)
    IN  IF n > 0 /\ PeriodFinal[tokens[n]]
        THEN SubSeq(tokens, 1, n - 1) \o <<WithoutLast[tokens[n]], ".">>
        ELSE tokens

RECURSIVE Concat(_)
Concat(lists) ==
    IF lists = <<>> THEN <<>> ELSE lists[1] \o Concat(Tail(lists))

\* word_tokenize(text): the Treebank tokens of each sentence of
\* sent_tokenize(text), in order.
word_tokenize(text) ==
    LET sents == sent_tokenize(text)
    IN  Concat([k \in 1..Len(sents) |-> TreebankTokenize(sents[k])])

\* The words of stopwords.words('english') that Vocabulary has.
stop_words == {"a", "d", "i", "of", "the"}

\* ------------------------------------------------------------ generate_extractive_summary

NUM_SENTENCES == 4

LONG_SENTENCE == 30

NotEnoughText ==
    <<"Not enough coherent text detected to generate a narrative summary.">>

\* word.isalnum() and word not in stop_words
IsContentWord(word) == IsAlnum[word] /\ word \notin stop_words

\* The dictionary of counts the loop over words builds: an item per content
\* word, in order of first occurrence.
CountWords(words) == Counter(SelectSeq(words, IsContentWord))

\* max(word_frequencies.values()) if word_frequencies else 1
RECURSIVE MaxCount(_)
MaxCount(counts) ==
    IF counts = <<>> THEN 1
    ELSE IF Len(counts) = 1 THEN counts[1][2]
    ELSE LET rest == MaxCount(Tail(counts))
         IN  IF counts[1][2] >= rest THEN counts[1][2] ELSE rest

\* A float is kept exactly, by its binary expansion in groups of 15 bits:
\* <<w, g1, g2, g3, g4, g5>> is w + g1/2^15 + g2/2^30 + ... + g5/2^75.
\* Every double from 2^-16 up to 2^15 is such a sequence, which the quotients
\* of counts up to 65535 and sums below 32768 are.
GroupBits == 15

Base == 32768

Groups == 5

\* The bits of the significand of a double.
MantissaBits == 53

RECURSIVE Pow2(_)
Pow2(n) == IF n = 0 THEN 1 ELSE 2 * Pow2(n - 1)

\* The first k groups of r / m, for r < m, by long division.
RECURSIVE LongDivision(_, _, _)
LongDivision(r, m, k) ==
    IF k = 0 THEN <<>>
    ELSE <<(r * Base) \div m>> \o LongDivision((r * Base) % m, m, k - 1)

\* What the long division leaves after k groups.
RECURSIVE Remainder(_, _, _)
Remainder(r, m, k) ==
    IF k = 0 THEN r ELSE Remainder((r * Base) % m, m, k - 1)

\* The group that has bit number j, bit 0 being the lowest bit of the last
\* group.
GroupOf(j) == Groups + 1 - j \div GroupBits

Bit(x, j) == (x[GroupOf(j)] \div Pow2(j % GroupBits)) % 2

\* No bit of x below bit j is set.
ZeroBelow(x, j) ==
    /\ x[GroupOf(j)] % Pow2(j % GroupBits) = 0
    /\ \A k \in (GroupOf(j) + 1)..Len(x) : x[k] = 0

\* The number of bits from the highest set bit of x down to bit 0.
BitLength(x) ==
    IF \A k \in 1..Len(x) : x[k] = 0 THEN 0
    ELSE LET top == CHOOSE k \in 1..Len(x) :
                        x[k] # 0 /\ \A h \in 1..(k - 1) : x[h] = 0
         IN  DoublingsUpTo(1, x[top]) + 1 + GroupBits * (Len(x) - top)

\* The carry out of the groups after group k into it.
RECURSIVE Carry(_, _, _)
Carry(x, y, k) ==
    IF k = Len(x) THEN 0
    ELSE (x[k + 1] + y[k + 1] + Carry(x, y, k + 1)) \div Base

\* The sum of two expansions, exactly.
AddExact(x, y) ==
    [k \in 1..Len(x) |->
        LET t == x[k] + y[k] + Carry(x, y, k)
        IN  IF k = 1 THEN t ELSE t % Base]

\* The double nearest to x, or to a little more than x when `inexact`: the
\* bits below the 53 highest are dropped, and the last bit kept goes up by
\* one when what was dropped is more than half of it, or is half of it and
\* the last bit kept is odd (round half to even).
RoundToDouble(x, inexact) ==
    LET dropped == BitLength(x) - MantissaBits
    IN  IF dropped <= 0 THEN x
        ELSE LET g == GroupOf(dropped)
                 last == Pow2(dropped % GroupBits)
                 up == /\ Bit(x, dropped - 1) = 1
                       /\ \/ inexact
                          \/ ~ZeroBelow(x, dropped - 1)
                          \/ Bit(x, dropped) = 1
                 kept == [k \in 1..Len(x) |->
                             IF k < g THEN x[k]
                             ELSE IF k = g THEN x[k] - (x[k] % last)
                             ELSE 0]
                 one == [k \in 1..Len(x) |-> IF k = g THEN last ELSE 0]
             IN  IF up THEN AddExact(kept, one) ELSE kept

\* count / max_frequency of two ints: the double nearest to the quotient.
Quotient(count, max_frequency) ==
    LET r == count % max_frequency
    IN  RoundToDouble(<<count \div max_frequency>>
                          \o LongDivision(r, max_frequency, Groups),
                      Remainder(r, max_frequency, Groups) # 0)

\* word_frequencies[word] = word_frequencies[word] / max_frequency
Normalize(counts) ==
    LET max_frequency == MaxCount(counts)
    IN  [k \in 1..Len(counts) |->
            <<counts[k][1], Quotient(counts[k][2], max_frequency)>>]

HasKey(dict, key) == \E k \in 1..Len(dict) : dict[k][1] = key

Get(dict, key) == dict[CHOOSE k \in 1..Len(dict) : dict[k][1] = key][2]

\* x + y of two floats: the double nearest to the sum.
Plus(x, y) == RoundToDouble(AddExact(x, y), FALSE)

\* x >= y for two scores.
ScoreGE(x, y) ==
    \/ x = y
    \/ \E k \in 1..Len(x) : x[k] > y[k] /\ \A h \in 1..(k - 1) : x[h] = y[h]

\* The test admits a sentence of exactly LONG_SENTENCE tokens.
NotTooLongInclusive(sentence) == Len(split(sentence)) <= LONG_SENTENCE

\* len(sentence.split(' ')) < 30
NotTooLong(sentence) == Len(split(sentence)) < LONG_SENTENCE

\* The innermost statement: the first frequency of a sentence text makes its
\* entry, every later one is added to the entry the text already has.
AddScore(sentence_scores, sentence, frequency) ==
    IF HasKey(sentence_scores, sentence)
    THEN [k \in 1..Len(sentence_scores) |->
             IF sentence_scores[k][1] = sentence
             THEN <<sentence, Plus(sentence_scores[k][2], frequency)>>
             ELSE sentence_scores[k]]
    ELSE Append(sentence_scores, <<sentence, frequency>>)

\* The inner loop over the tokens of one sentence, from token number j on.
\* tokens are the tokens the first test lets through.
RECURSIVE ScoreTokens(_, _, _, _, _)
ScoreTokens(sentence_scores, sentence, tokens, j, word_frequencies) ==
    IF j > Len(tokens) THEN sentence_scores
    ELSE LET next == IF NotTooLong(sentence)
                     THEN AddScore(sentence_scores, sentence,
                                   Get(word_frequencies, tokens[j]))
                     ELSE sentence_scores
         IN  ScoreTokens(next, sentence, tokens, j + 1, word_frequencies)

\* One pass of `for sentence in sentences`: of the tokens of the sentence in
\* lower case, those that are keys of word_frequencies go on to the test of
\* the sentence's length.
ScoreSentence(sentence_scores, sentence, word_frequencies) ==
    ScoreTokens(sentence_scores, sentence,
                SelectSeq(word_tokenize(lower(sentence)),
                          LAMBDA word : HasKey(word_frequencies, word)),
                1, word_frequencies)

RECURSIVE ScoreSentences(_, _, _)
ScoreSentences(sentence_scores, sentences, word_frequencies) ==
    IF sentences = <<>> THEN sentence_scores
    ELSE ScoreSentences(
             ScoreSentence(sentence_scores, sentences[1], word_frequencies),
             Tail(sentences), word_frequencies)

\* An item goes before the items of its own score: the later of two
\* sentences of one score comes first.
InsertByScoreLatestFirst(sorted, item) ==
    LET n == Cardinality({k \in 1..Len(sorted) :
                             ~ScoreGE(item[2], sorted[k][2])})
    IN  SubSeq(sorted, 1, n) \o <<item>> \o SubSeq(sorted, n + 1, Len(sorted))

\* An item goes after every item whose score is not smaller than its own.
InsertByScore(sorted, item) ==
    LET n == Cardinality({k \in 1..Len(sorted) :
                             ScoreGE(sorted[k][2], item[2])})
    IN  SubSeq(sorted, 1, n) \o <<item>> \o SubSeq(sorted, n + 1, Len(sorted))

RECURSIVE SortByScore(_)
SortByScore(items) ==
    IF items = <<>> THEN <<>>
    ELSE InsertByScore(SortByScore(SubSeq(items, 1, Len(items) - 1)),
                       items[Len(items)])

\* nlargest(n, sentence_scores, key=sentence_scores.get): the keys by
\* descending score, keys of one score in the order of the dictionary, and
\* the first n of them.
nlargest(n, sentence_scores) ==
    LET top == Take(SortByScore(sentence_scores), n)
    IN  [k \in 1..Len(top) |-> top[k][1]]

\* The function as a whole.
generate_extractive_summary(all_words, num_sentences) ==
    IF all_words = <<>> THEN NotEnoughText
    ELSE LET text == join(AsStrings(all_words))
             sentences == sent_tokenize(text)
             words == word_tokenize(lower(text))
         IN  IF Len(sentences) < num_sentences THEN join(sentences)
             ELSE join(nlargest(num_sentences,
                                ScoreSentences(<<>>, sentences,
                                               Normalize(CountWords(words)))))

\* ------------------------------------------------------------ state

VARIABLES
    variant,            \* which of the two scripts runs
    pc,                 \* where the run is
    log_data,           \* what load_log_file returned
    idx,                \* position of the parsing loop in log_data
    timed_records,
    stdout,             \* the messages printed so far
    metrics,            \* start_time, end_time, total_duration
    word_counts,
    top_content_words,
    total_words_read,
    important_events,
    i,                  \* position of the scanning loop in timed_records
    final_report,       \* what generate_narrative_summary returned
    output_file,        \* the file at SUMMARY_OUTPUT_FILENAME
    exit_code,          \* -1 while the process runs
    error,              \* the exception that ended the process, if one did
    all_words,          \* the argument of generate_extractive_summary
    sentences,
    words,
    word_frequencies,
    sentence_scores,
    s,                  \* position of the scoring loop in sentences
    summary_sentences,
    content_summary_narrative   \* what generate_extractive_summary returned

vars ==
    <<variant, pc, log_data, idx, timed_records, stdout, metrics, word_counts,
      top_content_words, total_words_read, important_events, i, final_report,
      output_file, exit_code, error, all_words, sentences, words,
      word_frequencies, sentence_scores, s, summary_sentences,
      content_summary_narrative>>

\* The locals of generate_extractive_summary.
summarizer ==
    <<all_words, sentences, words, word_frequencies, sentence_scores, s,
      summary_sentences>>

locals ==
    <<idx, timed_records, metrics, word_counts, top_content_words,
      total_words_read, important_events, i, summarizer,
      content_summary_narrative>>

NoReport == [kind |-> "none"]

EmptyLogMessage ==
    [kind |-> "message",
     text |-> "No text detection events were recorded. Cannot generate summary."]

NoValidTimeMessage ==
    [kind |-> "message",
     text |-> "No valid time data found in the log. Cannot generate summary."]

SUMMARY_OUTPUT_FILENAME(v) ==
    IF v = "ocr_analyzer" THEN "ocr_narrative_summary.txt"
    ELSE "ocr_smart_narrative_summary.txt"

Init ==
    /\ variant \in Variants
    /\ pc = "main"
    /\ log_data = <<>>
    /\ idx = 0
    /\ timed_records = <<>>
    /\ stdout = <<>>
    /\ metrics = [start_time |-> 0, end_time |-> 0, total_duration |-> 0]
    /\ word_counts = <<>>
    /\ top_content_words = <<>>
    /\ total_words_read = 0
    /\ important_events = <<>>
    /\ i = 0
    /\ final_report = NoReport
    /\ output_file = NoReport
    /\ exit_code = -1
    /\ error = ""
    /\ all_words = <<>>
    /\ sentences = <<>>
    /\ words = <<>>
    /\ word_frequencies = <<>>
    /\ sentence_scores = <<>>
    /\ s = 0
    /\ summary_sentences = <<>>
    /\ content_summary_narrative = <<>>

\* sys.exit(1) after a message.
ExitWith(message) ==
    /\ stdout' = Append(stdout, message)
    /\ pc' = "done"
    /\ exit_code' = 1

\* An exception nothing catches: the interpreter prints the traceback and
\* the process ends with status 1.
Raise(exception) ==
    /\ error' = exception
    /\ pc' = "done"
    /\ exit_code' = 1

\* ------------------------------------------------------------ __main__

\* if len(sys.argv) < 2: usage and exit; else the path is taken.
Main ==
    /\ pc = "main"
    /\ \E argc \in {1, 2} :
          IF argc < 2
          THEN /\ ExitWith([tag |-> "USAGE"])
               /\ UNCHANGED <<variant, log_data, locals, final_report,
                              output_file, error>>
          ELSE /\ pc' = "load"
               /\ UNCHANGED <<variant, log_data, locals, stdout, final_report,
                              output_file, exit_code, error>>

\* What `except Exception` catches in load_log_file, by the class of the
\* exception: open() of a directory, of a file that may not be read or that
\* was removed after os.path.exists() saw it, or failing in another way;
\* bytes that are no text; json.load of JSON nested deeper than the
\* interpreter recurses, of an integer of more digits than int() converts,
\* or of more data than memory holds; and len() of JSON data that is a
\* number, true, false or null.
UnexpectedLoadErrors ==
    {"IsADirectoryError", "PermissionError", "FileNotFoundError", "OSError",
     "UnicodeDecodeError", "RecursionError", "ValueError", "MemoryError",
     "TypeError"}

\* load_log_file: the path does not exist (two lines are printed), or
\* json.load raises JSONDecodeError, or anything else in the try statement
\* raises, or the data, a list of objects, is returned.
LoadLogFile ==
    /\ pc = "load"
    /\ \/ /\ stdout' = stdout \o <<[tag |-> "ERROR", cause |-> "not found"],
                                   [tag |-> "HINT"]>>
          /\ pc' = "done"
          /\ exit_code' = 1
          /\ UNCHANGED log_data
       \/ /\ ExitWith([tag |-> "ERROR", cause |-> "JSONDecodeError"])
          /\ UNCHANGED log_data
       \/ \E e \in UnexpectedLoadErrors :
             /\ ExitWith([tag |-> "UNEXPECTED", cause |-> e])
             /\ UNCHANGED log_data
       \/ \E data \in Logs :
             /\ log_data' = data
             /\ stdout' = Append(stdout, [tag |-> "INFO", count |-> Len(data)])
             /\ pc' = "generate"
             /\ UNCHANGED exit_code
    /\ UNCHANGED <<variant, locals, final_report, output_file, error>>

\* ------------------------------------------------------------ generate_narrative_summary

\* if not log_data: return the message; else timed_records = [].
GenerateStart ==
    /\ pc = "generate"
    /\ IF log_data = <<>>
       THEN /\ final_report' = EmptyLogMessage
            /\ pc' = "save"
            /\ UNCHANGED <<idx, timed_records>>
       ELSE /\ timed_records' = <<>>
            /\ idx' = 1
            /\ pc' = "parse"
            /\ UNCHANGED final_report
    /\ UNCHANGED <<variant, log_data, stdout, metrics, word_counts,
                   top_content_words, total_words_read, important_events, i,
                   output_file, exit_code, error, summarizer,
                   content_summary_narrative>>

\* One pass of `for record in log_data`: the try statement.  The record is
\* the object log_data holds, so the dt_time written to it shows in log_data
\* as in timed_records.
ParseRecord ==
    /\ pc = "parse"
    /\ idx <= Len(log_data)
    /\ LET record == log_data[idx]
           outcome == ParseOutcome(record)
       IN  IF Propagates(outcome)
           THEN /\ Raise(outcome)
                /\ UNCHANGED <<log_data, idx, timed_records, stdout>>
           ELSE /\ idx' = idx + 1
                /\ UNCHANGED <<pc, exit_code, error>>
                /\ IF outcome = "ok"
                   THEN LET timed == WithTime(record,
                                              parse_timestamp(record.timestamp))
                        IN  /\ log_data' = [log_data EXCEPT ![idx] = timed]
                            /\ timed_records' = Append(timed_records, timed)
                            /\ UNCHANGED stdout
                   ELSE /\ stdout' =
                              IF WarnsOnSkip(variant)
                              THEN Append(stdout, [tag |-> "WARNING",
                                                   timestamp |-> record.timestamp])
                              ELSE stdout
                        /\ UNCHANGED <<log_data, timed_records>>
    /\ UNCHANGED <<variant, metrics, word_counts, top_content_words,
                   total_words_read, important_events, i, final_report,
                   output_file, summarizer, content_summary_narrative>>

\* `if timed_records is None`, which no list satisfies.
NothingToSummarizeIsNone(records) == FALSE

\* if not timed_records
NothingToSummarize(records) == records = <<>>

\* After the loop: return the message when no record is left.
NoValidTime ==
    /\ pc = "parse"
    /\ idx > Len(log_data)
    /\ NothingToSummarize(timed_records)
    /\ final_report' = NoValidTimeMessage
    /\ pc' = "save"
    /\ UNCHANGED <<variant, log_data, locals, stdout, output_file, exit_code,
                   error>>

\* The statements between the loops reading the two fields with
\* record.get(field, default): an absent field raises nothing.
AggregateErrorWithDefaults(v, records) ==
    IF records = <<>> THEN "IndexError" ELSE ""

\* The exception the statements between the two loops raise, "" when none:
\* the first analyzer sums non_duplicate_count before it reads
\* detected_words_list, the second reads detected_words_list first;
\* timed_records[0] has nothing to index in an empty list.
AggregateError(v, records) ==
    LET noCount == \E k \in 1..Len(records) :
                       "non_duplicate_count" \notin records[k].fields
        noWords == \E k \in 1..Len(records) :
                       "detected_words_list" \notin records[k].fields
    IN  IF v = "ocr_analyzer"
        THEN IF noCount THEN "KeyError"
             ELSE IF records = <<>> THEN "IndexError"
             ELSE IF noWords THEN "KeyError"
             ELSE ""
        ELSE IF records = <<>> THEN "IndexError"
             ELSE IF noWords \/ noCount THEN "KeyError"
             ELSE ""

\* After the loop, with records left: the sort, the time metrics, the total
\* and the word counts.
Aggregate ==
    /\ pc = "parse"
    /\ idx > Len(log_data)
    /\ ~NothingToSummarize(timed_records)
    /\ LET sorted == SortByTime(timed_records)
           n == Len(sorted)
           counts == Counter(MergeWords(sorted))
           raised == AggregateError(variant, sorted)
       IN  /\ timed_records' = sorted
           /\ IF raised # ""
              THEN /\ Raise(raised)
                   /\ UNCHANGED <<metrics, word_counts, top_content_words,
                                  total_words_read, important_events, i,
                                  content_summary_narrative>>
              ELSE /\ metrics' =
                         [start_time |-> FormatMillis(sorted[1].dt_time),
                          end_time |-> FormatMillis(sorted[n].dt_time),
                          total_duration |->
                              Format2f(TimeDiff(sorted[n].dt_time,
                                                sorted[1].dt_time))]
                   /\ total_words_read' = total_words_read_of(sorted)
                   /\ word_counts' = counts
                   /\ top_content_words' = top_content_words_of(counts)
                   /\ content_summary_narrative' =
                          IF variant = "ocr_analyzer"
                          THEN content_summary_narrative
                          ELSE generate_extractive_summary(MergeWords(sorted),
                                                           NUM_SENTENCES)
                   /\ important_events' = <<>>
                   /\ i' = 1
                   /\ pc' = "scan"
                   /\ UNCHANGED <<exit_code, error>>
    /\ UNCHANGED <<variant, log_data, idx, stdout, final_report, output_file,
                   summarizer>>

\* One pass of `for i, record in enumerate(timed_records)`.
ScanStep ==
    /\ pc = "scan"
    /\ i <= Len(timed_records)
    /\ important_events' = important_events \o ScanRecord(timed_records, i)
    /\ i' = i + 1
    /\ UNCHANGED <<variant, pc, log_data, idx, timed_records, stdout, metrics,
                   word_counts, top_content_words, total_words_read,
                   final_report, output_file, exit_code, error, summarizer,
                   content_summary_narrative>>

\* datetime.now().strftime('%Y-%m-%d %H:%M:%S'): what the clock may show
\* when the report is assembled.
Clock == {"2026-10-30 09:10:00", "2026-10-30 09:10:01"}

\* The report text, as the values its lines show.  The first line of the
\* second analyzer's report has the time the report was generated at.
Narrative(v, events, now) ==
    IF v = "ocr_analyzer"
    THEN [kind |-> "narrative",
          start_time |-> metrics.start_time,
          end_time |-> metrics.end_time,
          total_duration |-> metrics.total_duration,
          inferred_content_keywords |-> Take(top_content_words, TOP_THEMES),
          top_content_words |-> top_content_words,
          total_unique_words |-> Len(word_counts),
          total_words_read |-> total_words_read,
          important_events |-> events]
    ELSE [kind |-> "narrative",
          generated |-> now,
          top_content_words |-> top_content_words,
          content_summary_narrative |-> content_summary_narrative,
          start_time |-> metrics.start_time,
          end_time |-> metrics.end_time,
          total_duration |-> metrics.total_duration,
          total_words_read |-> total_words_read,
          important_events |-> events]

\* After the scanning loop: the placeholder bullet when nothing was found,
\* and the narrative is assembled and returned.
Assemble ==
    /\ pc = "scan"
    /\ i > Len(timed_records)
    /\ LET events == IF important_events = <<>> THEN <<NoEventsBullet>>
                     ELSE important_events
       IN  /\ important_events' = events
           /\ \E now \in Clock : final_report' = Narrative(variant, events, now)
    /\ pc' = "save"
    /\ UNCHANGED <<variant, log_data, idx, timed_records, stdout, metrics,
                   word_counts, top_content_words, total_words_read, i,
                   output_file, exit_code, error, summarizer,
                   content_summary_narrative>>

\* ------------------------------------------------------------ save_summary_file

WriteOutcomes == {"written", "open failed", "write failed"}

\* open(..., 'w') and f.write(report), then the end of the script.  A failed
\* open leaves the file as it was; a failed write leaves it truncated.  The
\* except clause prints the exception and the function returns, so the
\* script, at its last statement either way, ends with status 0.
SaveSummaryFile ==
    /\ pc = "save"
    /\ \E outcome \in WriteOutcomes :
          /\ output_file' =
                 CASE outcome = "written" -> final_report
                   [] outcome = "open failed" -> output_file
                   [] outcome = "write failed" -> [kind |-> "truncated"]
          /\ stdout' =
                 IF outcome = "written"
                 THEN Append(stdout, [tag |-> "SUCCESS",
                                      path |-> SUMMARY_OUTPUT_FILENAME(variant)])
                 ELSE Append(stdout, [tag |-> "ERROR", cause |-> outcome])
          /\ exit_code' = 0
    /\ pc' = "done"
    /\ UNCHANGED <<variant, log_data, locals, final_report, error>>

Next ==
    \/ Main
    \/ LoadLogFile
    \/ GenerateStart
    \/ ParseRecord
    \/ NoValidTime
    \/ Aggregate
    \/ ScanStep
    \/ Assemble
    \/ SaveSummaryFile

Spec == Init /\ [][Next]_vars

\* ------------------------------------------------------------ the summarizer, step by step

\* The word lists a record can bring: a sentence, two sentences of which the
\* second begins with a capital, a sentence of one word, a fragment of
\* stop-words that ends no sentence, and sentences of 29 and of 30 tokens.
Filler(n) == [k \in 1..n |-> "of"]

Units ==
    {<<"bank", "paid.">>,
     <<"the", "bank.", "Mail", "sent.">>,
     <<"sent.">>,
     <<"of", "the">>,
     Filler(27) \o <<"bank", "sent.">>,
     Filler(28) \o <<"paid", "mail.">>}

MaxUnits == 4

\* The merged word lists generate_extractive_summary is called with.
Documents ==
    UNION {{Concat(units) : units \in [1..n -> Units]} : n \in 0..MaxUnits}

\* The call with the merged words of the records.
SummaryInit ==
    /\ variant = "ocr_updated_analyze"
    /\ pc = "summarize"
    /\ log_data = <<>>
    /\ idx = 0
    /\ timed_records = <<>>
    /\ stdout = <<>>
    /\ metrics = [start_time |-> 0, end_time |-> 0, total_duration |-> 0]
    /\ word_counts = <<>>
    /\ top_content_words = <<>>
    /\ total_words_read = 0
    /\ important_events = <<>>
    /\ i = 0
    /\ final_report = NoReport
    /\ output_file = NoReport
    /\ exit_code = -1
    /\ error = ""
    /\ all_words \in Documents
    /\ sentences = <<>>
    /\ words = <<>>
    /\ word_frequencies = <<>>
    /\ sentence_scores = <<>>
    /\ s = 0
    /\ summary_sentences = <<>>
    /\ content_summary_narrative = <<>>

analyzer ==
    <<variant, log_data, idx, timed_records, stdout, metrics, word_counts,
      top_content_words, total_words_read, important_events, i, final_report,
      output_file, exit_code, error>>

\* The two tokenizations, and the two early returns: no words at all, and
\* fewer sentences than asked for.
Tokenize ==
    /\ pc = "summarize"
    /\ IF all_words = <<>>
       THEN /\ content_summary_narrative' = NotEnoughText
            /\ pc' = "returned"
            /\ UNCHANGED <<sentences, words>>
       ELSE LET text == join(AsStrings(all_words))
            IN  /\ sentences' = sent_tokenize(text)
                /\ words' = word_tokenize(lower(text))
                /\ IF Len(sent_tokenize(text)) < NUM_SENTENCES
                   THEN /\ content_summary_narrative' =
                               join(sent_tokenize(text))
                        /\ pc' = "returned"
                   ELSE /\ pc' = "count"
                        /\ UNCHANGED content_summary_narrative
    /\ UNCHANGED <<analyzer, all_words, word_frequencies, sentence_scores, s,
                   summary_sentences>>

\* The loop over words, the maximum and the normalization.
CountFrequencies ==
    /\ pc = "count"
    /\ word_frequencies' = Normalize(CountWords(words))
    /\ sentence_scores' = <<>>
    /\ s' = 1
    /\ pc' = "score"
    /\ UNCHANGED <<analyzer, all_words, sentences, words, summary_sentences,
                   content_summary_narrative>>

\* One pass of `for sentence in sentences`.
ScoreStep ==
    /\ pc = "score"
    /\ s <= Len(sentences)
    /\ sentence_scores' =
           ScoreSentence(sentence_scores, sentences[s], word_frequencies)
    /\ s' = s + 1
    /\ UNCHANGED <<analyzer, pc, all_words, sentences, words, word_frequencies,
                   summary_sentences, content_summary_narrative>>

\* nlargest and the join of what it returns.
SelectTop ==
    /\ pc = "score"
    /\ s > Len(sentences)
    /\ summary_sentences' = nlargest(NUM_SENTENCES, sentence_scores)
    /\ content_summary_narrative' =
           join(nlargest(NUM_SENTENCES, sentence_scores))
    /\ pc' = "returned"
    /\ UNCHANGED <<analyzer, all_words, sentences, words, word_frequencies,
                   sentence_scores, s>>

SummaryNext ==
    \/ Tokenize
    \/ CountFrequencies
    \/ ScoreStep
    \/ SelectTop

SummarySpec == SummaryInit /\ [][SummaryNext]_vars

\* ------------------------------------------------------------ properties

\* load_log_file returned: its [INFO] line is the first thing printed.
Loaded == Len(stdout) >= 1 /\ stdout[1].tag = "INFO"

\* generate_narrative_summary returned the narrative.
Reported == final_report.kind = "narrative"

\* The record carries a string timestamp.
HasStringTimestamp(record) == "timestamp" \in record.fields /\ record.ts_is_str

\* parse_timestamp of each timestamp a log can hold.
ParsedTimestamp ==
    [ts \in {record.timestamp : record \in Pool} |-> parse_timestamp(ts)]

\* The record carries a string timestamp in one of the two formats.
Parses(record) ==
    HasStringTimestamp(record) /\ ParsedTimestamp[record.timestamp].ok

\* The record carries a string timestamp in neither format.
Malformed(record) ==
    HasStringTimestamp(record) /\ ~ParsedTimestamp[record.timestamp].ok

BulletsOfKind(events, kind) == SelectSeq(events, LAMBDA e : e.kind = kind)

\* The k-th smallest element of a set of numbers.
RECURSIVE Nth(_, _)
Nth(set, k) ==
    LET least == CHOOSE x \in set : \A y \in set : x <= y
    IN  IF k = 1 THEN least ELSE Nth(set \ {least}, k - 1)

\* Whole microseconds from a to b, for times a few seconds apart.
MicrosBetween(a, b) == (b.sec - a.sec) * 1000000 + (b.us - a.us)

\* Positions k of the sorted records at least the threshold after k - 1.
GapPositions(records) ==
    {k \in 2..Len(records) :
        MicrosBetween(records[k - 1].dt_time, records[k].dt_time)
            >= GAP_THRESHOLD_SECONDS * 1000000}

SortedByTime(records) ==
    \A k \in 2..Len(records) :
        \/ records[k - 1].dt_time.sec < records[k].dt_time.sec
        \/ /\ records[k - 1].dt_time.sec = records[k].dt_time.sec
           /\ records[k - 1].dt_time.us <= records[k].dt_time.us

\* The log as it was loaded: its records without the dt_time the loop has
\* written into them.
AsLoaded(record) ==
    [fields |-> record.fields, ts_is_str |-> record.ts_is_str,
     timestamp |-> record.timestamp,
     total_words_detected |-> record.total_words_detected,
     non_duplicate_count |-> record.non_duplicate_count,
     keywords |-> record.keywords,
     detected_words_list |-> record.detected_words_list]

LoadedLog == [k \in 1..Len(log_data) |-> AsLoaded(log_data[k])]

\* The events at T, T + 2 s and T + 8 s.
GapExampleLog ==
    <<Full(TS_090000, 12, 10, WordsA), Full(TS_090002, 7, 5, WordsB),
      Full(TS_090008, 60, 55, WordsC)>>

\* C1: in the report, the PAUSE/BREAK bullets are, in order, one for each
\* adjacent pair of the time-sorted valid records that lies 5 seconds or more
\* apart and none for any other pair, each naming the earlier record's
\* timestamp, the later record's and the seconds between them; the log of
\* events at T, T+2s, T+8s has the single bullet from the 2nd to the 3rd, of
\* 6.0 seconds.
C1_GapPerPairAtThreshold ==
    Reported =>
        LET gaps == BulletsOfKind(final_report.important_events, "PAUSE/BREAK")
            at == GapPositions(timed_records)
        IN  /\ SortedByTime(timed_records)
            /\ Len(timed_records) = Len(SelectSeq(log_data, Parses))
            /\ Len(gaps) = Cardinality(at)
            /\ \A j \in 1..Len(gaps) :
                  LET k == Nth(at, j)
                  IN  /\ gaps[j].from = timed_records[k - 1].timestamp
                      /\ gaps[j].to = timed_records[k].timestamp
                      /\ gaps[j].seconds * 100000 + 50000 >=
                             MicrosBetween(timed_records[k - 1].dt_time,
                                           timed_records[k].dt_time)
                      /\ gaps[j].seconds * 100000 - 50000 <=
                             MicrosBetween(timed_records[k - 1].dt_time,
                                           timed_records[k].dt_time)
            /\ LoadedLog = GapExampleLog =>
                  gaps = <<[kind |-> "PAUSE/BREAK", from |-> TS_090002,
                            to |-> TS_090008, seconds |-> 60]>>

\* The example log was reported, with its one gap.
C1_Witness ==
    /\ pc = "done"
    /\ Reported
    /\ LoadedLog = GapExampleLog
    /\ Len(BulletsOfKind(final_report.important_events, "PAUSE/BREAK")) = 1

\* C2: in the report, the HIGH ACTIVITY bullets are, in order, one for each
\* valid record whose non_duplicate_count is 50 or more and none for any
\* other record, each with that record's timestamp and count: 49 is not
\* flagged, 50 is.
C2_ActivityAtThreshold ==
    Reported =>
        LET high == BulletsOfKind(final_report.important_events, "HIGH ACTIVITY")
            at == {k \in 1..Len(timed_records) :
                      timed_records[k].non_duplicate_count >= ACTIVITY_THRESHOLD}
        IN  /\ Len(high) = Cardinality(at)
            /\ \A j \in 1..Len(high) :
                  /\ high[j].timestamp = timed_records[Nth(at, j)].timestamp
                  /\ high[j].count = timed_records[Nth(at, j)].non_duplicate_count
                  /\ high[j].count > 49

\* A report over a record of count 49 and a record of count 50, with one
\* bullet.
C2_Witness ==
    /\ pc = "done"
    /\ Reported
    /\ \E k \in 1..Len(timed_records) : timed_records[k].non_duplicate_count = 49
    /\ \E k \in 1..Len(timed_records) : timed_records[k].non_duplicate_count = 50
    /\ Len(BulletsOfKind(final_report.important_events, "HIGH ACTIVITY")) = 1

AllStringTimestamps == \A k \in 1..Len(log_data) : HasStringTimestamp(log_data[k])

\* C3: when every record of the log carries a string timestamp, the parsing
\* loop raises nothing, and after each pass the valid records are exactly the
\* records passed so far whose timestamp parses, in the log's order; at the
\* end of the loop their number is the log's length less the number of
\* malformed timestamps.
C3_BadTimestampSkippedNotFatal ==
    /\ (error # "" /\ idx <= Len(log_data)) => ~AllStringTimestamps
    /\ (pc = "parse" /\ AllStringTimestamps) =>
          LET seen == SubSeq(log_data, 1, idx - 1)
              good == SelectSeq(seen, Parses)
          IN  /\ Len(timed_records) = Len(good)
              /\ \A k \in 1..Len(good) :
                    /\ timed_records[k].timestamp = good[k].timestamp
                    /\ timed_records[k] =
                          WithTime(good[k], timed_records[k].dt_time)
              /\ idx > Len(log_data) =>
                    Len(timed_records) =
                        Len(log_data) - Len(SelectSeq(log_data, Malformed))

\* The loop ended over a log that begins with a malformed timestamp and has a
\* valid one after it.
C3_Witness ==
    /\ pc = "parse"
    /\ AllStringTimestamps
    /\ idx > Len(log_data)
    /\ Len(log_data) >= 2
    /\ Malformed(log_data[1])
    /\ Parses(log_data[Len(log_data)])
    /\ Len(timed_records) < Len(log_data)

\* The number of [WARNING] lines printed.
WarningsPrinted == Len(SelectSeq(stdout, LAMBDA m : m.tag = "WARNING"))

\* C4: while the parsing loop runs and after it, the number of [WARNING]
\* lines printed is the number of records dropped so far for a timestamp that
\* does not parse.
C4_WarningPerDroppedRecord ==
    pc = "parse" =>
        WarningsPrinted = Len(SelectSeq(SubSeq(log_data, 1, idx - 1), Malformed))

\* C5: when the log is empty, or every record of it has a string timestamp
\* that does not parse, the run raises nothing and what
\* generate_narrative_summary returns is the message for that case; nothing
\* was sorted, measured, counted or scanned.
C5_NoDataShortCircuits ==
    (Loaded /\ pc \in {"save", "done"}
        /\ \A k \in 1..Len(log_data) : Malformed(log_data[k])) =>
        /\ error = ""
        /\ final_report =
              (IF log_data = <<>> THEN EmptyLogMessage ELSE NoValidTimeMessage)
        /\ timed_records = <<>>
        /\ metrics = [start_time |-> 0, end_time |-> 0, total_duration |-> 0]
        /\ total_words_read = 0
        /\ word_counts = <<>>
        /\ top_content_words = <<>>
        /\ important_events = <<>>
        /\ i = 0
        /\ pc = "done" => exit_code = 0

\* The run ended over a log of two records, both with malformed timestamps.
C5_Witness ==
    /\ pc = "done"
    /\ Loaded
    /\ Len(log_data) = 2
    /\ \A k \in 1..Len(log_data) : Malformed(log_data[k])
    /\ final_report = NoValidTimeMessage

\* The sum of non_duplicate_count over the records of the log whose timestamp
\* parses.
RECURSIVE ValidCountSum(_)
ValidCountSum(log) ==
    IF log = <<>> THEN 0
    ELSE (IF Parses(log[1]) THEN log[1].non_duplicate_count ELSE 0)
         + ValidCountSum(Tail(log))

\* C6: the total words read of the report is the sum of non_duplicate_count
\* over the records of the log whose timestamp parses, whatever their
\* detected_words_list holds.
C6_TotalIsSumOfValidCounts ==
    Reported => final_report.total_words_read = ValidCountSum(log_data)

\* A report over a log with a dropped record of count 50 and a valid record
\* whose word list is shorter than its count.
C6_Witness ==
    /\ pc = "done"
    /\ Reported
    /\ \E k \in 1..Len(log_data) :
          Malformed(log_data[k]) /\ log_data[k].non_duplicate_count = 50
    /\ \E k \in 1..Len(log_data) :
          /\ Parses(log_data[k])
          /\ Len(log_data[k].detected_words_list) < log_data[k].non_duplicate_count
    /\ final_report.total_words_read > 0

Occurrences(word, list) == Cardinality({k \in 1..Len(list) : list[k] = word})

FirstIndex(word, list) ==
    CHOOSE k \in 1..Len(list) :
        list[k] = word /\ \A j \in 1..(k - 1) : list[j] # word

WordsOf(list) == {list[k] : k \in 1..Len(list)}

\* C7: the top content words of the report are distinct words of the merged
\* sequence, 10 of them or all of them when there are fewer; they stand in
\* descending order of count, words of equal count in the order of their
\* first occurrence in the merged sequence; no word left out has a higher
\* count than a listed one.
C7_TopTenByCountThenFirstSeen ==
    Reported =>
        LET merged == MergeWords(timed_records)
            top == final_report.top_content_words
            distinct == Cardinality(WordsOf(merged))
        IN  /\ Len(top) <= 10
            /\ Len(top) = IF distinct < 10 THEN distinct ELSE 10
            /\ \A j \in 1..Len(top) : top[j] \in WordsOf(merged)
            /\ \A j, k \in 1..Len(top) :
                  j < k =>
                      \/ Occurrences(top[j], merged) > Occurrences(top[k], merged)
                      \/ /\ Occurrences(top[j], merged) = Occurrences(top[k], merged)
                         /\ FirstIndex(top[j], merged) < FirstIndex(top[k], merged)
            /\ \A w \in WordsOf(merged) \ WordsOf(top) :
                  \A j \in 1..Len(top) :
                      Occurrences(top[j], merged) >= Occurrences(w, merged)

\* A report over more than 10 distinct words, where a word left out has the
\* count of a listed one and the most frequent word is not the first seen.
C7_Witness ==
    /\ pc = "done"
    /\ Reported
    /\ LET merged == MergeWords(timed_records)
           top == final_report.top_content_words
       IN  /\ Cardinality(WordsOf(merged)) > 10
           /\ Len(top) = 10
           /\ top[1] # merged[1]
           /\ \E w \in WordsOf(merged) \ WordsOf(top) :
                 Occurrences(w, merged) = Occurrences(top[10], merged)

Lacks(record, field) == field \notin record.fields

\* The run ended with an error and without a report.
Failed ==
    /\ exit_code # 0
    /\ error # ""
    /\ final_report = NoReport
    /\ output_file = NoReport

\* C8, as stated: a log with a record that lacks any of the five fields makes
\* the run fail with an error and no report.
C8_AnyMissingFieldFails ==
    (pc = "done" /\ Loaded
        /\ \E k \in 1..Len(log_data) : log_data[k].fields # FieldNames) =>
        Failed

\* A record the analysis cannot get past: it has no timestamp, or its
\* timestamp parses and it has no non_duplicate_count or no
\* detected_words_list.
Unusable(record) ==
    \/ Lacks(record, "timestamp")
    \/ /\ Parses(record)
       /\ Lacks(record, "non_duplicate_count") \/ Lacks(record, "detected_words_list")

\* C8, amended: a log with a record that has no timestamp, or whose timestamp
\* parses and that has no non_duplicate_count or no detected_words_list,
\* makes the run fail with an error and no report; a log of records with
\* string timestamps and without such a record is analysed without an error,
\* whether or not its records have total_words_detected and keywords, and
\* whatever the records with unparsable timestamps lack.
C8_FieldsReadMustBePresent ==
    (pc = "done" /\ Loaded) =>
        /\ (\E k \in 1..Len(log_data) : Unusable(log_data[k])) => Failed
        /\ (AllStringTimestamps /\ \A k \in 1..Len(log_data) : ~Unusable(log_data[k]))
              => (error = "" /\ exit_code = 0 /\ final_report # NoReport)

\* A report over a log of a record without keywords and a record, left out
\* for its timestamp, without non_duplicate_count.
C8_Witness ==
    /\ pc = "done"
    /\ Loaded
    /\ Len(log_data) = 2
    /\ Lacks(log_data[1], "keywords")
    /\ Malformed(log_data[2]) /\ Lacks(log_data[2], "non_duplicate_count")
    /\ Reported
    /\ Len(timed_records) = 1

\* The run was told that the report was saved.
Confirmed == Len(stdout) >= 1 /\ stdout[Len(stdout)].tag = "SUCCESS"

\* C9: a run that ends with status 0 was given its argument, loaded the log,
\* wrote the report it generated to the output file and printed the
\* confirmation.
C9_ZeroExitOnlyAfterWrite ==
    (pc = "done" /\ exit_code = 0) =>
        /\ Loaded
        /\ final_report # NoReport
        /\ output_file = final_report
        /\ Confirmed

RECURSIVE BulletsUpTo(_, _)
\* The key events due after the first n of the sorted records: for each
\* record in turn its activity bullet, if its count reaches the threshold,
\* and then the gap bullet of the pair it closes, if that pair is a gap.
BulletsUpTo(records, n) ==
    IF n = 0 THEN <<>>
    ELSE BulletsUpTo(records, n - 1)
         \o (IF records[n].non_duplicate_count >= ACTIVITY_THRESHOLD
             THEN <<[kind |-> "HIGH ACTIVITY", timestamp |-> records[n].timestamp,
                     count |-> records[n].non_duplicate_count]>>
             ELSE <<>>)
         \o (IF n \in GapPositions(records)
             THEN <<[kind |-> "PAUSE/BREAK", from |-> records[n - 1].timestamp,
                     to |-> records[n].timestamp]>>
             ELSE <<>>)

\* What a bullet is about: its kind and the records it names.
About(bullet) ==
    IF bullet.kind = "PAUSE/BREAK"
    THEN [kind |-> bullet.kind, from |-> bullet.from, to |-> bullet.to]
    ELSE bullet

Subjects(bullets) == [k \in 1..Len(bullets) |-> About(bullets[k])]

\* C10: while the scanning loop runs, the key events are the bullets of the
\* records scanned so far, record by record in time order, the activity
\* bullet of a record before the gap bullet of the pair it closes; the
\* report lists them in that order.
C10_KeyEventsInScanOrder ==
    /\ pc = "scan" =>
          Subjects(important_events) = BulletsUpTo(timed_records, i - 1)
    /\ (Reported /\ BulletsUpTo(timed_records, Len(timed_records)) # <<>>) =>
          Subjects(final_report.important_events) =
              BulletsUpTo(timed_records, Len(timed_records))

\* A report whose second record has a high count and closes a gap, after a
\* first record with a high count: three bullets, the gap last.
C10_Witness ==
    /\ pc = "done"
    /\ Reported
    /\ Len(timed_records) >= 2
    /\ Len(final_report.important_events) = 3
    /\ final_report.important_events[1].kind = "HIGH ACTIVITY"
    /\ final_report.important_events[2].kind = "HIGH ACTIVITY"
    /\ final_report.important_events[3].kind = "PAUSE/BREAK"
    /\ final_report.important_events[3].to =
           final_report.important_events[2].timestamp

\* ------------------------------------------------------------ properties of the summarizer

\* The scoring loop has gone through every sentence.
ScoringDone == Len(sentences) >= NUM_SENTENCES /\ s > Len(sentences)

Summarized == ScoringDone /\ pc = "returned"

\* The number of space-separated tokens of a sentence.
TokenCount(sentence) ==
    Cardinality({k \in 1..Len(sentence) : sentence[k] # " "})

\* A token in lower case and without the period that ends its sentence.
ContentForm(piece) == WithoutLast[LowerOf[piece]]

IsContentToken(piece) ==
    /\ piece # " "
    /\ IsAlnum[ContentForm(piece)]
    /\ ContentForm(piece) \notin stop_words

HasContentWord(sentence) ==
    \E k \in 1..Len(sentence) : IsContentToken(sentence[k])

HasScore(sentence) ==
    \E k \in 1..Len(sentence_scores) : sentence_scores[k][1] = sentence

\* The string holds the sentence, piece after piece.
Holds(string, sentence) ==
    \E p \in 0..(Len(string) - Len(sentence)) :
        SubSeq(string, p + 1, p + Len(sentence)) = sentence

\* The function has returned a summary of a document that has words, or its
\* scoring loop has gone through every sentence.
SummaryDecided == (pc = "returned" /\ all_words # <<>>) \/ ScoringDone

\* The function returned the text as it is, having found fewer sentences
\* than asked for.
ReturnedWholeText ==
    /\ pc = "returned"
    /\ all_words # <<>>
    /\ Len(sentences) < NUM_SENTENCES

\* C11 as stated, of every document: a sentence of more than 30 tokens has no
\* score and is not in the summary, and every sentence of 30 or fewer tokens
\* with a content word has a score.
C11_ExcludedOnlyAboveThirty ==
    SummaryDecided =>
        \A k \in 1..Len(sentences) :
            LET unit == sentences[k]
            IN  /\ TokenCount(unit) > LONG_SENTENCE =>
                       /\ ~HasScore(unit)
                       /\ ~Holds(content_summary_narrative, unit)
                /\ TokenCount(unit) <= LONG_SENTENCE /\ HasContentWord(unit) =>
                       HasScore(unit)

\* C11, amended: with at least N sentences, once they are scored a sentence
\* has a score exactly when it has fewer than 30 tokens and a content word
\* among them, and a sentence of 30 or more tokens is not in the summary;
\* with fewer than N sentences no sentence is scored and the summary is the
\* whole text, every sentence in it whatever its length.
C11_ScoredBelowThirty ==
    /\ ScoringDone =>
          \A k \in 1..Len(sentences) :
              LET unit == sentences[k]
              IN  /\ HasScore(unit) <=>
                         TokenCount(unit) < LONG_SENTENCE /\ HasContentWord(unit)
                  /\ TokenCount(unit) >= LONG_SENTENCE =>
                         ~Holds(content_summary_narrative, unit)
    /\ ReturnedWholeText =>
          /\ sentence_scores = <<>>
          /\ content_summary_narrative = join(sentences)
          /\ \A k \in 1..Len(sentences) :
                Holds(content_summary_narrative, sentences[k])

\* The whole text was returned, a sentence of 30 tokens and one of fewer with
\* a content word in it, neither of them scored.
C11_WholeTextReturned ==
    /\ ReturnedWholeText
    /\ \E k \in 1..Len(sentences) : TokenCount(sentences[k]) >= LONG_SENTENCE
    /\ \E k \in 1..Len(sentences) :
          /\ TokenCount(sentences[k]) < LONG_SENTENCE
          /\ HasContentWord(sentences[k])

\* A summary with a sentence of 29 tokens in it, of a document that has a
\* sentence of exactly 30 tokens, content word included, left without score.
C11_Witness ==
    /\ Summarized
    /\ \E k \in 1..Len(sentences) :
          /\ TokenCount(sentences[k]) = LONG_SENTENCE - 1
          /\ HasScore(sentences[k])
          /\ Holds(content_summary_narrative, sentences[k])
    /\ \E k \in 1..Len(sentences) :
          /\ TokenCount(sentences[k]) = LONG_SENTENCE
          /\ HasContentWord(sentences[k])
          /\ ~HasScore(sentences[k])


\* The number of tokens of the document that are the word.
CountInDocument(word) ==
    Cardinality({k \in 1..Len(all_words) : ContentForm(all_words[k]) = word})

ContentWordsOfDocument ==
    {ContentForm(all_words[k]) :
        k \in {j \in 1..Len(all_words) : IsContentToken(all_words[j])}}

MaxCountInDocument ==
    CHOOSE m \in {CountInDocument(word) : word \in ContentWordsOfDocument} :
        \A word \in ContentWordsOfDocument : CountInDocument(word) <= m

\* How many tokens of the sentence are the word.
CountInSentence(word, sentence) ==
    Cardinality({k \in 1..Len(sentence) :
                    sentence[k] # " " /\ ContentForm(sentence[k]) = word})

\* Over the content words, the count of the word in the document once for
\* each token of the sentence that is the word, added up.
RECURSIVE SumOfCounts(_, _)
SumOfCounts(sentence, content_words) ==
    IF content_words = {} THEN 0
    ELSE LET word == CHOOSE w \in content_words : TRUE
         IN  CountInSentence(word, sentence) * CountInDocument(word)
             + SumOfCounts(sentence, content_words \ {word})

\* m times the float x, exactly.
RECURSIVE CarryOfTimes(_, _, _)
CarryOfTimes(x, m, k) ==
    IF k = Len(x) THEN 0
    ELSE (x[k + 1] * m + CarryOfTimes(x, m, k + 1)) \div Base

Times(x, m) ==
    [k \in 1..Len(x) |->
        LET t == x[k] * m + CarryOfTimes(x, m, k)
        IN  IF k = 1 THEN t ELSE t % Base]

\* The float is the integer n to within 2^-16, far more than the rounding of
\* the sums of a document adds up to and far less than one count.
IsAbout(x, n) ==
    LET y == AddExact(x, [k \in 1..Len(x) |-> IF k = 2 THEN Base \div 2 ELSE 0])
    IN  y[1] = n /\ y[2] = 0

IsZero(x) == \A k \in 1..Len(x) : x[k] = 0

AtMostOne(x) == x[1] = 0 \/ (x[1] = 1 /\ \A k \in 2..Len(x) : x[k] = 0)

\* C12: once the sentences are scored, every normalized frequency is the
\* word's count over the greatest count, more than 0 and at most 1, and the
\* score of every scored sentence is the sum of the normalized frequencies
\* of the content-word tokens of that one sentence, also when the text of the
\* sentence occurs more than once in the document (floats being equal to
\* within their rounding).
C12_ScoreIsSumOverOneUnit ==
    ScoringDone =>
        /\ \A k \in 1..Len(word_frequencies) :
              LET frequency == word_frequencies[k][2]
              IN  /\ IsAbout(Times(frequency, MaxCountInDocument),
                             CountInDocument(word_frequencies[k][1]))
                  /\ ~IsZero(frequency) /\ AtMostOne(frequency)
        /\ \A k \in 1..Len(sentence_scores) :
              LET sentence == sentence_scores[k][1]
                  score == sentence_scores[k][2]
              IN  IsAbout(Times(score, MaxCountInDocument),
                          SumOfCounts(sentence, ContentWordsOfDocument))

\* The place of the first sentence of the document with this text.
FirstAppearance(sentence) ==
    CHOOSE k \in 1..Len(sentences) :
        /\ sentences[k] = sentence
        /\ \A j \in 1..(k - 1) : sentences[j] # sentence

\* The score the scoring loop left for the sentence.
ScoreOf(sentence) ==
    sentence_scores[CHOOSE k \in 1..Len(sentence_scores) :
                        sentence_scores[k][1] = sentence][2]

\* x > y for two floats: the first group they differ in is greater in x.
Higher(x, y) ==
    \E k \in 1..Len(x) : x[k] > y[k] /\ \A h \in 1..(k - 1) : x[h] = y[h]

\* The first sentence goes before the second in the summary: its score is
\* higher, or the scores are equal and it appears first in the document.
GoesBefore(first, second) ==
    \/ Higher(ScoreOf(first), ScoreOf(second))
    \/ /\ ~Higher(ScoreOf(second), ScoreOf(first))
       /\ FirstAppearance(first) < FirstAppearance(second)

InSummary(sentence) ==
    \E k \in 1..Len(summary_sentences) : summary_sentences[k] = sentence

\* Where sentence number k of the summary begins in the summary's text.
RECURSIVE StartOf(_)
StartOf(k) ==
    IF k = 1 THEN 1
    ELSE StartOf(k - 1) + Len(summary_sentences[k - 1]) + 1

\* C13: with at least N sentences in the document, the summary is made of
\* scored sentences only, N of them or all of them when fewer have a score;
\* every sentence in it goes before every scored sentence left out, by higher
\* score and among equal scores by first appearance in the document; the
\* sentences stand in that same order, highest score first, whatever their
\* order in the document; and the text returned is these sentences with one
\* space between each two.
C13_TopScoredInScoreOrder ==
    Summarized =>
        LET n == Len(summary_sentences)
        IN  /\ n = IF Len(sentence_scores) < NUM_SENTENCES
                   THEN Len(sentence_scores) ELSE NUM_SENTENCES
            /\ \A k \in 1..n : HasScore(summary_sentences[k])
            /\ \A k \in 1..n : \A j \in 1..Len(sentence_scores) :
                  ~InSummary(sentence_scores[j][1]) =>
                      GoesBefore(summary_sentences[k], sentence_scores[j][1])
            /\ \A j \in 1..n : \A k \in (j + 1)..n :
                  GoesBefore(summary_sentences[j], summary_sentences[k])
            /\ Len(content_summary_narrative) =
                   IF n = 0 THEN 0
                   ELSE StartOf(n) + Len(summary_sentences[n]) - 1
            /\ \A k \in 1..n :
                  /\ SubSeq(content_summary_narrative, StartOf(k),
                            StartOf(k) + Len(summary_sentences[k]) - 1)
                         = summary_sentences[k]
                  /\ k < n =>
                         content_summary_narrative[
                             StartOf(k) + Len(summary_sentences[k])] = " "

\* A summary of a document with more than N scored sentences, where a
\* sentence was left out that has the score of one taken, and where two
\* sentences stand in the summary the other way round than in the document.
C13_Witness ==
    /\ Summarized
    /\ Len(sentence_scores) > NUM_SENTENCES
    /\ \E j \in 1..Len(sentence_scores) : \E k \in 1..Len(summary_sentences) :
          /\ ~InSummary(sentence_scores[j][1])
          /\ ~Higher(ScoreOf(summary_sentences[k]), sentence_scores[j][2])
    /\ \E j \in 1..Len(summary_sentences) :
          \E k \in (j + 1)..Len(summary_sentences) :
             FirstAppearance(summary_sentences[k])
                 < FirstAppearance(summary_sentences[j])

====
